---- MODULE Spec2Model ----
(***************************************************************************)
(* The decision engine of the insurance query system (everything.py) and   *)
(* the query parser that feeds it (parse.py).                              *)
(*                                                                         *)
(* Texts are sequences of one-character strings, so that str.lower(),      *)
(* str.split(), the `in` substring test and the regular expressions are    *)
(* computed on characters as Python computes them.  Optional values are    *)
(* sequences of length 0 (None) or 1.  Numbers that Python holds as floats *)
(* (similarities, confidences) are exact rationals [n |-> _, d |-> _].     *)
(***************************************************************************)
EXTENDS Integers, Sequences, FiniteSets, TLC

(***************************************************************************)
(* Characters and strings                                                  *)
(***************************************************************************)
UpperLetters == <<"A","B","C","D","E","F","G","H","I","J","K","L","M","N","O","P","Q","R","S","T","U","V","W","X","Y","Z">>

LowerLetters == <<"a","b","c","d","e","f","g","h","i","j","k","l","m","n","o","p","q","r","s","t","u","v","w","x","y","z">>

DigitChars == <<"0","1","2","3","4","5","6","7","8","9">>

Range(f) == {f[i] : i \in DOMAIN f}

UpperSet == Range(UpperLetters)

LowerSet == Range(LowerLetters)

DigitSet == Range(DigitChars)

IsDigit(c) == c \in DigitSet

\* \s
Whitespace == {" ", "\t", "\n", "\r"}

IsSpace(c) == c \in Whitespace

\* \w
IsWordChar(c) == c \in LowerSet \/ c \in UpperSet \/ c \in DigitSet \/ c = "_"

DigitVal(c) == CHOOSE v \in 0..9 : DigitChars[v + 1] = c

LowerChar(c) ==
    IF c \in UpperSet
    THEN LowerLetters[CHOOSE i \in DOMAIN UpperLetters : UpperLetters[i] = c]
    ELSE c

\* str.lower()
LowerOf(s) == [i \in 1..Len(s) |-> LowerChar(s[i])]

\* int(num_str) of a run of digits
RECURSIVE ToInt(_)
ToInt(ds) ==
    IF Len(ds) = 0 THEN 0
    ELSE ToInt(SubSeq(ds, 1, Len(ds) - 1)) * 10 + DigitVal(ds[Len(ds)])

\* sub at position i of s (1-based), as re matches a literal
PrefixAt(s, i, sub) ==
    /\ i + Len(sub) - 1 <= Len(s)
    /\ \A k \in 1..Len(sub) : s[i + k - 1] = sub[k]

\* Python's `sub in s`
Contains(s, sub) == \E i \in 1..(Len(s) - Len(sub) + 1) : PrefixAt(s, i, sub)

\* str.split(): the maximal runs of non-whitespace characters, in order
RECURSIVE SplitFrom(_, _, _, _)
SplitFrom(s, i, cur, acc) ==
    IF i > Len(s) THEN (IF cur = <<>> THEN acc ELSE Append(acc, cur))
    ELSE IF IsSpace(s[i])
         THEN SplitFrom(s, i + 1, <<>>, IF cur = <<>> THEN acc ELSE Append(acc, cur))
         ELSE SplitFrom(s, i + 1, Append(cur, s[i]), acc)

Split(s) == SplitFrom(s, 1, <<>>, <<>>)

(***************************************************************************)
(* Numbers                                                                 *)
(***************************************************************************)
Max(a, b) == IF a >= b THEN a ELSE b

Min(a, b) == IF a <= b THEN a ELSE b

\* min(xs) of a non-empty list
RECURSIVE MinOf(_)
MinOf(xs) == IF Len(xs) = 1 THEN xs[1] ELSE Min(xs[1], MinOf(Tail(xs)))

\* Python 3 round(num / den): to the nearest integer, a tie to the even one
RoundDiv(num, den) ==
    IF 2 * (num % den) < den THEN num \div den
    ELSE IF 2 * (num % den) > den THEN (num \div den) + 1
    ELSE IF (num \div den) % 2 = 0 THEN num \div den ELSE (num \div den) + 1

RECURSIVE Gcd(_, _)
Gcd(a, b) == IF b = 0 THEN a ELSE Gcd(b, a % b)

Abs(x) == IF x < 0 THEN -x ELSE x

\* the rational num/den, den > 0, in lowest terms
Reduced(num, den, g) == [n |-> num \div g, d |-> den \div g]

Rat(num, den) == Reduced(num, den, Gcd(Abs(num), den))

Zero == [n |-> 0, d |-> 1]

One == [n |-> 1, d |-> 1]

RLess(a, b) == a.n * b.d < b.n * a.d

RLeq(a, b) == a.n * b.d <= b.n * a.d

RMin(a, b) == IF RLess(b, a) THEN b ELSE a

RMax(a, b) == IF RLess(a, b) THEN b ELSE a

RAdd(a, b) == Rat(a.n * b.d + b.n * a.d, a.d * b.d)

(***************************************************************************)
(* Vectors: the numpy arrays of the engine                                 *)
(***************************************************************************)
RECURSIVE DotFrom(_, _, _)
DotFrom(a, b, i) ==
    IF i > Len(a) THEN 0 ELSE a[i] * b[i] + DotFrom(a, b, i + 1)

\* np.dot of two vectors of one length
Dot(a, b) == DotFrom(a, b, 1)

RECURSIVE SqrtFrom(_, _)
SqrtFrom(x, r) == IF r * r >= x THEN r ELSE SqrtFrom(x, r + 1)

\* np.linalg.norm; the vectors of the model have whole norms
Norm(v) == SqrtFrom(Dot(v, v), 0)

\* np.dot(a, b) / (norm(a) * norm(b) + 1e-8), given the product of the norms:
\* with a zero vector the quotient is 0 / 1e-8 = 0; otherwise 1e-8 moves the
\* quotient towards 0 by less than any gap between two values compared here
Quotient(dot, norms) == IF norms = 0 THEN Zero ELSE Rat(dot, norms)

Cosine(a, b) == Quotient(Dot(a, b), Norm(a) * Norm(b))

(***************************************************************************)
(* Regular expressions, matched as Python's re matches them: a pattern is  *)
(* a tree, and Match lists every way it matches at a position, in the      *)
(* order the backtracking matcher tries them (greedy repeats first longest,*)
(* alternatives left to right).  The first way is the match re reports.    *)
(***************************************************************************)
Lit(s) == [k |-> "lit", s |-> s]

\* a character class
OneOf(cs) == [k |-> "set", cs |-> cs]

Cat(rs) == [k |-> "seq", rs |-> rs]

Alt(rs) == [k |-> "alt", rs |-> rs]

\* r{min,max}, greedy; max < 0 for no upper limit
Rep(r, min, max) == [k |-> "rep", r |-> r, min |-> min, max |-> max]

Opt(r) == Rep(r, 0, 1)

Star(r) == Rep(r, 0, -1)

Plus(r) == Rep(r, 1, -1)

\* capturing group number g
Grp(g, r) == [k |-> "grp", g |-> g, r |-> r]

\* \b
WB == [k |-> "wb"]

\* (?!r)
NotAhead(r) == [k |-> "nla", r |-> r]

\* the alternation of literals
Words(ws) == Alt([i \in DOMAIN ws |-> Lit(ws[i])])

Digit == OneOf(DigitSet)

Space == OneOf(Whitespace)

\* [a-z]
Letter == OneOf(LowerSet)

\* \b at position i: exactly one of s[i-1], s[i] is a word character
AtBoundary(s, i) ==
    (i > 1 /\ IsWordChar(s[i - 1])) # (i <= Len(s) /\ IsWordChar(s[i]))

Way(pos, caps) == [pos |-> pos, caps |-> caps]

\* the ways ms with group g set to what they consumed from position i
Captured(g, s, i, ms) ==
    [k \in 1..Len(ms) |->
        Way(ms[k].pos, [ms[k].caps EXCEPT ![g] = <<SubSeq(s, i, ms[k].pos - 1)>>])]

\* the ways that consumed something from position i
Progressed(ms, i) == SelectSeq(ms, LAMBDA m : m.pos > i)

RECURSIVE Match(_, _, _, _)
RECURSIVE MatchAlt(_, _, _, _, _)
RECURSIVE MatchSeq(_, _, _, _)
RECURSIVE MatchEach(_, _, _)
RECURSIVE MatchRep(_, _, _, _, _)
RECURSIVE MatchRepEach(_, _, _, _)

\* the ways of r at position i of s, the groups so far being caps
Match(r, s, i, caps) ==
    CASE r.k = "lit" -> IF PrefixAt(s, i, r.s) THEN <<Way(i + Len(r.s), caps)>> ELSE <<>>
      [] r.k = "set" -> IF i <= Len(s) /\ s[i] \in r.cs THEN <<Way(i + 1, caps)>> ELSE <<>>
      [] r.k = "wb"  -> IF AtBoundary(s, i) THEN <<Way(i, caps)>> ELSE <<>>
      [] r.k = "nla" -> IF Len(Match(r.r, s, i, caps)) = 0 THEN <<Way(i, caps)>> ELSE <<>>
      [] r.k = "grp" -> Captured(r.g, s, i, Match(r.r, s, i, caps))
      [] r.k = "alt" -> MatchAlt(r.rs, 1, s, i, caps)
      [] r.k = "seq" -> MatchSeq(r.rs, 1, s, <<Way(i, caps)>>)
      [] r.k = "rep" -> MatchRep(r, s, i, caps, 0)

\* the alternatives rs[k..], left to right
MatchAlt(rs, k, s, i, caps) ==
    IF k > Len(rs) THEN <<>>
    ELSE Match(rs[k], s, i, caps) \o MatchAlt(rs, k + 1, s, i, caps)

\* the parts rs[k..] after the ways ms of the parts before them
MatchSeq(rs, k, s, ms) ==
    IF k > Len(rs) THEN ms ELSE MatchSeq(rs, k + 1, s, MatchEach(rs[k], s, ms))

\* r after each of the ways ms
MatchEach(r, s, ms) ==
    IF Len(ms) = 0 THEN <<>>
    ELSE Match(r, s, ms[1].pos, ms[1].caps) \o MatchEach(r, s, Tail(ms))

\* the repeat r after count rounds: one more round first, then stopping here
MatchRep(r, s, i, caps, count) ==
    (IF r.max < 0 \/ count < r.max
     THEN MatchRepEach(r, s, Progressed(Match(r.r, s, i, caps), i), count + 1)
     ELSE <<>>)
    \o (IF count >= r.min THEN <<Way(i, caps)>> ELSE <<>>)

MatchRepEach(r, s, ms, count) ==
    IF Len(ms) = 0 THEN <<>>
    ELSE MatchRep(r, s, ms[1].pos, ms[1].caps, count) \o MatchRepEach(r, s, Tail(ms), count)

\* no group has matched
NoGroups(n) == [g \in 1..n |-> <<>>]

\* a match object: where it starts and ends, group(0) and the n groups, each
\* <<>> (None) or <<text>>
Found(s, i, way) ==
    [start |-> i, end |-> way.pos, text |-> SubSeq(s, i, way.pos - 1), groups |-> way.caps]

FirstWay(s, i, ways) == IF Len(ways) = 0 THEN <<>> ELSE <<Found(s, i, ways[1])>>

\* pattern.match at position i: <<match>> or <<>>
MatchAt(r, n, s, i) == FirstWay(s, i, Match(r, s, i, NoGroups(n)))

\* re.search from position i on: the leftmost match, <<>> for None
RECURSIVE SearchFrom(_, _, _, _)
SearchNext(r, n, s, i, m) == IF m # <<>> THEN m ELSE SearchFrom(r, n, s, i + 1)

SearchFrom(r, n, s, i) ==
    IF i > Len(s) + 1 THEN <<>> ELSE SearchNext(r, n, s, i, MatchAt(r, n, s, i))

\* re.search(r, s) for a pattern r of n groups
Search(r, n, s) == SearchFrom(r, n, s, 1)

\* re.finditer / re.findall: the matches that do not overlap, left to right
RECURSIVE FindIterFrom(_, _, _, _, _)
FindIterNext(r, n, s, acc, m) ==
    IF m = <<>> THEN acc
    ELSE FindIterFrom(r, n, s, IF m[1].end > m[1].start THEN m[1].end ELSE m[1].end + 1,
                      Append(acc, m[1]))

FindIterFrom(r, n, s, i, acc) == FindIterNext(r, n, s, acc, SearchFrom(r, n, s, i))

FindIter(r, n, s) == FindIterFrom(r, n, s, 1, <<>>)

(***************************************************************************)
(* Waiting-Period Extractor: extract_waiting_periods                       *)
(***************************************************************************)
\* the alternation (day|days|month|months|year|years|yr|yrs), in its order
WaitUnits ==
    <<<<"d","a","y">>,
      <<"d","a","y","s">>,
      <<"m","o","n","t","h">>,
      <<"m","o","n","t","h","s">>,
      <<"y","e","a","r">>,
      <<"y","e","a","r","s">>,
      <<"y","r">>,
      <<"y","r","s">>>>

\* lines 126-130
WaitPatterns ==
    << \* r"(\d+)\s*(day|days|month|months|year|years|yr|yrs)"
       Cat(<<Grp(1, Plus(Digit)), Star(Space), Grp(2, Words(WaitUnits))>>),
       \* r"(\d+)[-]?(day|days|month|months|year|years|yr|yrs)"
       Cat(<<Grp(1, Plus(Digit)), Opt(Lit(<<"-">>)), Grp(2, Words(WaitUnits))>>),
       \* r"waiting\s+period\s+(?:of\s+)?(\d+)\s*(day|days|month|months|year|years|yr|yrs)"
       Cat(<<Lit(<<"w","a","i","t","i","n","g">>), Plus(Space), Lit(<<"p","e","r","i","o","d">>), Plus(Space),
             Opt(Cat(<<Lit(<<"o","f">>), Plus(Space)>>)),
             Grp(1, Plus(Digit)), Star(Space), Grp(2, Words(WaitUnits))>>) >>

\* lines 140-145 without the max(1, ...) of line 143
WaitMonthsRounded(num, unit) ==
    IF Contains(unit, <<"y","e","a","r">>) \/ Contains(unit, <<"y","r">>)
    THEN num * 12
    ELSE IF Contains(unit, <<"d","a","y">>)
         THEN RoundDiv(num, 30)
         ELSE num

\* lines 140-145: the unit normalisation of the extractor
WaitMonths(num, unit) ==
    IF Contains(unit, <<"y","e","a","r">>) \/ Contains(unit, <<"y","r">>)
    THEN num * 12
    ELSE IF Contains(unit, <<"d","a","y">>)
         THEN Max(1, RoundDiv(num, 30))
         ELSE num

\* lines 136-145: what one match appends; a non-positive number is skipped
PeriodOfMatch(num, unit) == IF num <= 0 THEN <<>> ELSE <<WaitMonths(num, unit)>>

\* lines 134-147: what the matches of one pattern append
RECURSIVE PeriodsOfMatches(_)
PeriodsOfMatches(ms) ==
    IF Len(ms) = 0 THEN <<>>
    ELSE PeriodOfMatch(ToInt(ms[1].groups[1][1]), ms[1].groups[2][1])
            \o PeriodsOfMatches(Tail(ms))

\* lines 132-147, on the lowered text
RECURSIVE PeriodsOfPatterns(_, _)
PeriodsOfPatterns(s, p) ==
    IF p > Len(WaitPatterns) THEN <<>>
    ELSE PeriodsOfMatches(FindIter(WaitPatterns[p], 2, s)) \o PeriodsOfPatterns(s, p + 1)

ExtractWaitingPeriods(text) ==
    IF Len(text) = 0 THEN <<>> ELSE PeriodsOfPatterns(LowerOf(text), 1)

(***************************************************************************)
(* Query Parser: parse_query                                               *)
(***************************************************************************)
\* str.strip()
RECURSIVE Strip(_)
Strip(s) ==
    IF Len(s) = 0 THEN s
    ELSE IF IsSpace(s[1]) THEN Strip(Tail(s))
    ELSE IF IsSpace(s[Len(s)]) THEN Strip(SubSeq(s, 1, Len(s) - 1))
    ELSE s

UpperChar(c) ==
    IF c \in LowerSet
    THEN UpperLetters[CHOOSE i \in DOMAIN LowerLetters : LowerLetters[i] = c]
    ELSE c

IsLetter(c) == c \in LowerSet \/ c \in UpperSet

\* str.title(): a letter after a letter is lowered, any other letter raised
Title(s) ==
    [i \in 1..Len(s) |->
        IF i > 1 /\ IsLetter(s[i - 1]) THEN LowerChar(s[i]) ELSE UpperChar(s[i])]

\* ' '.join(words)
RECURSIVE JoinWords(_)
JoinWords(ws) ==
    IF Len(ws) = 0 THEN <<>>
    ELSE IF Len(ws) = 1 THEN ws[1]
    ELSE ws[1] \o <<" ">> \o JoinWords(Tail(ws))

Gender == Words(<<<<"m","a","l","e">>, <<"f","e","m","a","l","e">>>>)

\* \d{1,3}
Age == Rep(Digit, 1, 3)

\* lines 29-44
age_gender_patterns ==
    << \* r"\b(\d{1,3})\s*[/\-,]?\s*([mf])(?![a-z])\b"
       Cat(<<WB, Grp(1, Age), Star(Space), Opt(OneOf({"/", "-", ","})), Star(Space),
             Grp(2, OneOf({"m", "f"})), NotAhead(Letter), WB>>),
       \* r"\b(\d{1,3})\s+(male|female)\b"
       Cat(<<WB, Grp(1, Age), Plus(Space), Grp(2, Gender), WB>>),
       \* r"\b(male|female)\s+(\d{1,3})\b"
       Cat(<<WB, Grp(1, Gender), Plus(Space), Grp(2, Age), WB>>),
       \* r"\bage[:\s]*(\d{1,3})[,\s]*(male|female)?\b"
       Cat(<<WB, Lit(<<"a","g","e">>), Star(OneOf({":"} \cup Whitespace)), Grp(1, Age),
             Star(OneOf({","} \cup Whitespace)), Opt(Grp(2, Gender)), WB>>),
       \* r"\b(male|female)[,\s]*age[:\s]*(\d{1,3})\b"
       Cat(<<WB, Grp(1, Gender), Star(OneOf({","} \cup Whitespace)), Lit(<<"a","g","e">>),
             Star(OneOf({":"} \cup Whitespace)), Grp(2, Age), WB>>) >>

\* lines 75-79
age_only_patterns ==
    << \* r"\bage[:\s]*(\d{1,3})\b"
       Cat(<<WB, Lit(<<"a","g","e">>), Star(OneOf({":"} \cup Whitespace)), Grp(1, Age), WB>>),
       \* r"\b(\d{1,3})\s*(?:years?|yrs?)\s*old\b"
       Cat(<<WB, Grp(1, Age), Star(Space),
             Alt(<<Cat(<<Lit(<<"y","e","a","r">>), Opt(Lit(<<"s">>))>>),
                   Cat(<<Lit(<<"y","r">>), Opt(Lit(<<"s">>))>>)>>),
             Star(Space), Lit(<<"o","l","d">>), WB>>),
       \* r"\b(\d{1,3})\s*yo\b"
       Cat(<<WB, Grp(1, Age), Star(Space), Lit(<<"y","o">>), WB>>) >>

\* lines 89-92
gender_patterns ==
    << \* r"\b(male|female)\b"
       Cat(<<WB, Grp(1, Gender), WB>>),
       \* r"\b([mf])(?![a-z])\b"
       Cat(<<WB, Grp(1, OneOf({"m", "f"})), NotAhead(Letter), WB>>) >>

\* (months?|mo(?:nth)?(?!le)|years?|yrs?|days?)
LongUnit ==
    Alt(<<Cat(<<Lit(<<"m","o","n","t","h">>), Opt(Lit(<<"s">>))>>),
          Cat(<<Lit(<<"m","o">>), Opt(Lit(<<"n","t","h">>)), NotAhead(Lit(<<"l","e">>))>>),
          Cat(<<Lit(<<"y","e","a","r">>), Opt(Lit(<<"s">>))>>),
          Cat(<<Lit(<<"y","r">>), Opt(Lit(<<"s">>))>>),
          Cat(<<Lit(<<"d","a","y">>), Opt(Lit(<<"s">>))>>)>>)

\* (m(?!ale|ore)|y(?!oung)|d)
ShortUnit ==
    Alt(<<Cat(<<Lit(<<"m">>), NotAhead(Alt(<<Lit(<<"a","l","e">>), Lit(<<"o","r","e">>)>>))>>),
          Cat(<<Lit(<<"y">>), NotAhead(Lit(<<"o","u","n","g">>))>>),
          Lit(<<"d">>)>>)

\* lines 104-109
duration_patterns ==
    << \* r"\b(\d+)\s*[-]?\s*(months?|mo(?:nth)?(?!le)|years?|yrs?|days?)\s*(?:policy|plan|coverage)?\b"
       Cat(<<WB, Grp(1, Plus(Digit)), Star(Space), Opt(Lit(<<"-">>)), Star(Space),
             Grp(2, LongUnit), Star(Space),
             Opt(Words(<<<<"p","o","l","i","c","y">>, <<"p","l","a","n">>, <<"c","o","v","e","r","a","g","e">>>>)), WB>>),
       \* r"\b(?:policy|plan|coverage)\s*(?:of|for)?\s*(\d+)\s*(months?|mo(?:nth)?(?!le)|years?|yrs?|days?)\b"
       Cat(<<WB, Words(<<<<"p","o","l","i","c","y">>, <<"p","l","a","n">>, <<"c","o","v","e","r","a","g","e">>>>), Star(Space),
             Opt(Words(<<<<"o","f">>, <<"f","o","r">>>>)), Star(Space), Grp(1, Plus(Digit)),
             Star(Space), Grp(2, LongUnit), WB>>),
       \* r"\b(\d+)\s*[-]?\s*(m(?!ale|ore)|y(?!oung)|d)\s*(?:policy|plan)?\b"
       Cat(<<WB, Grp(1, Plus(Digit)), Star(Space), Opt(Lit(<<"-">>)), Star(Space),
             Grp(2, ShortUnit), Star(Space),
             Opt(Words(<<<<"p","o","l","i","c","y">>, <<"p","l","a","n">>>>)), WB>>) >>

\* any(keyword in unit for keyword in keywords)
AnyIn(keywords, unit) == \E k \in DOMAIN keywords : Contains(unit, keywords[k])

\* lines 118-124: the unit normalisation of the parser
DurationMonths(num, unit) ==
    IF AnyIn(<<<<"y","e","a","r">>, <<"y","r">>, <<"y">>>>, unit) THEN num * 12
    ELSE IF AnyIn(<<<<"d","a","y">>, <<"d">>>>, unit) THEN Max(1, RoundDiv(num, 30))
    ELSE num

\* lines 111-127: the first pattern that matches decides
RECURSIVE ParseDuration(_, _)
DurationOf(q_lower, p, m) ==
    IF m = <<>> THEN ParseDuration(q_lower, p + 1)
    ELSE <<DurationMonths(ToInt(m[1].groups[1][1]), LowerOf(m[1].groups[2][1]))>>

ParseDuration(q_lower, p) ==
    IF p > Len(duration_patterns) THEN <<>>
    ELSE DurationOf(q_lower, p, Search(duration_patterns[p], 2, q_lower))

\* lines 58-61 and 67-70: the gender a captured word stands for
GenderOf(word) ==
    IF Len(word) > 0 /\ LowerChar(word[1]) = "m" THEN <<"Male">>
    ELSE IF Len(word) > 0 /\ LowerChar(word[1]) = "f" THEN <<"Female">>
    ELSE <<>>

InAgeRange(age) == 0 <= age /\ age <= 120

\* lines 52-70: what a match of combined pattern p (1..5) sets: the age group
\* is group 1 in patterns 1, 2, 4 and group 2 in patterns 3, 5
AgeGenderOf(p, groups) ==
    IF p \in {1, 2, 4}
    THEN IF InAgeRange(ToInt(groups[1][1]))
         THEN [age |-> <<ToInt(groups[1][1])>>,
               gender |-> IF groups[2] # <<>> THEN GenderOf(groups[2][1]) ELSE <<>>]
         ELSE [age |-> <<>>, gender |-> <<>>]
    ELSE IF groups[2] # <<>> /\ InAgeRange(ToInt(groups[2][1]))
         THEN [age |-> <<ToInt(groups[2][1])>>, gender |-> GenderOf(groups[1][1])]
         ELSE [age |-> <<>>, gender |-> <<>>]

\* lines 46-71: the first combined pattern that matches ends the loop
RECURSIVE ParseAgeGender(_, _)
AgeGenderAt(q_lower, p, m) ==
    IF m = <<>> THEN ParseAgeGender(q_lower, p + 1) ELSE AgeGenderOf(p, m[1].groups)

ParseAgeGender(q_lower, p) ==
    IF p > Len(age_gender_patterns) THEN [age |-> <<>>, gender |-> <<>>]
    ELSE AgeGenderAt(q_lower, p, Search(age_gender_patterns[p], 2, q_lower))

\* lines 80-86: the first age-only pattern that matches an age in range
RECURSIVE ParseAgeOnly(_, _)
AgeOnlyAt(q_lower, p, m) ==
    IF m # <<>> /\ InAgeRange(ToInt(m[1].groups[1][1]))
    THEN <<ToInt(m[1].groups[1][1])>>
    ELSE ParseAgeOnly(q_lower, p + 1)

ParseAgeOnly(q_lower, p) ==
    IF p > Len(age_only_patterns) THEN <<>>
    ELSE AgeOnlyAt(q_lower, p, Search(age_only_patterns[p], 1, q_lower))

\* lines 93-101: the first gender-only pattern that matches
RECURSIVE ParseGenderOnly(_, _)
GenderOnlyAt(q_lower, p, m) ==
    IF m = <<>> THEN ParseGenderOnly(q_lower, p + 1) ELSE GenderOf(m[1].groups[1][1])

ParseGenderOnly(q_lower, p) ==
    IF p > Len(gender_patterns) THEN <<>>
    ELSE GenderOnlyAt(q_lower, p, Search(gender_patterns[p], 1, q_lower))

\* lines 131-142, in the order of the dict
cities_mapping ==
    << <<<<"p","u","n","e">>, "Pune">>, <<<<"m","u","m","b","a","i">>, "Mumbai">>, <<<<"d","e","l","h","i">>, "Delhi">>,
       <<<<"n","e","w"," ","d","e","l","h","i">>, "Delhi">>, <<<<"b","a","n","g","a","l","o","r","e">>, "Bangalore">>,
       <<<<"b","e","n","g","a","l","u","r","u">>, "Bangalore">>, <<<<"c","h","e","n","n","a","i">>, "Chennai">>,
       <<<<"k","o","l","k","a","t","a">>, "Kolkata">>, <<<<"c","a","l","c","u","t","t","a">>, "Kolkata">>,
       <<<<"h","y","d","e","r","a","b","a","d">>, "Hyderabad">>, <<<<"a","h","m","e","d","a","b","a","d">>, "Ahmedabad">>,
       <<<<"s","u","r","a","t">>, "Surat">>, <<<<"j","a","i","p","u","r">>, "Jaipur">>, <<<<"l","u","c","k","n","o","w">>, "Lucknow">>,
       <<<<"k","a","n","p","u","r">>, "Kanpur">>, <<<<"n","a","g","p","u","r">>, "Nagpur">>, <<<<"i","n","d","o","r","e">>, "Indore">>,
       <<<<"t","h","a","n","e">>, "Thane">>, <<<<"b","h","o","p","a","l">>, "Bhopal">>,
       <<<<"v","i","s","a","k","h","a","p","a","t","n","a","m">>, "Visakhapatnam">>, <<<<"p","i","m","p","r","i">>, "Pimpri">>,
       <<<<"p","a","t","n","a">>, "Patna">>, <<<<"v","a","d","o","d","a","r","a">>, "Vadodara">>,
       <<<<"g","h","a","z","i","a","b","a","d">>, "Ghaziabad">>, <<<<"l","u","d","h","i","a","n","a">>, "Ludhiana">>,
       <<<<"a","g","r","a">>, "Agra">>, <<<<"n","a","s","h","i","k">>, "Nashik">>, <<<<"f","a","r","i","d","a","b","a","d">>, "Faridabad">>,
       <<<<"m","e","e","r","u","t">>, "Meerut">>, <<<<"r","a","j","k","o","t">>, "Rajkot">> >>

\* the place of city in a list sorted by length, longest first, that keeps
\* the order of equal lengths (sorted is stable)
RECURSIVE InsertByLength(_, _)
InsertByLength(sorted, city) ==
    IF Len(sorted) = 0 THEN <<city>>
    ELSE IF Len(sorted[1][1]) >= Len(city[1])
         THEN <<sorted[1]>> \o InsertByLength(Tail(sorted), city)
         ELSE <<city>> \o sorted

RECURSIVE SortByLength(_, _)
SortByLength(cities, n) ==
    IF n = 0 THEN <<>>
    ELSE InsertByLength(SortByLength(cities, n - 1), cities[n])

\* line 145 without the sort: the keys in the order of the dict
unsorted_cities == cities_mapping

\* line 145
sorted_cities == SortByLength(cities_mapping, Len(cities_mapping))

\* lines 146-151: the first city of the sorted list found between boundaries
RECURSIVE ParseLocation(_, _)
ParseLocation(q_lower, c) ==
    IF c > Len(sorted_cities) THEN <<>>
    ELSE IF Search(Cat(<<WB, Lit(sorted_cities[c][1]), WB>>), 0, q_lower) # <<>>
         THEN <<sorted_cities[c][2]>>
         ELSE ParseLocation(q_lower, c + 1)

\* lines 155-169: the keywords of all categories, flattened in dict order
all_keywords ==
    <<<<"s","u","r","g","e","r","y">>, <<"s","u","r","g","i","c","a","l">>, <<"o","p","e","r","a","t","i","o","n">>, <<"o","p","e","r","a","t","i","v","e">>,
      <<"r","e","p","l","a","c","e","m","e","n","t">>, <<"i","m","p","l","a","n","t">>, <<"p","r","o","s","t","h","e","t","i","c">>,
      <<"r","e","c","o","n","s","t","r","u","c","t","i","o","n">>, <<"r","e","c","o","n","s","t","r","u","c","t","i","v","e">>, <<"r","e","p","a","i","r">>,
      <<"t","r","e","a","t","m","e","n","t">>, <<"t","h","e","r","a","p","y">>, <<"t","h","e","r","a","p","e","u","t","i","c">>,
      <<"b","i","o","p","s","y">>, <<"s","c","a","n">>, <<"t","e","s","t">>, <<"s","c","r","e","e","n","i","n","g">>, <<"e","x","a","m","i","n","a","t","i","o","n">>,
      <<"a","n","g","i","o","p","l","a","s","t","y">>, <<"b","y","p","a","s","s">>, <<"s","t","e","n","t">>, <<"c","a","r","d","i","a","c">>,
      <<"t","r","a","n","s","p","l","a","n","t">>, <<"t","r","a","n","s","p","l","a","n","t","a","t","i","o","n">>,
      <<"p","r","o","c","e","d","u","r","e">>, <<"i","n","t","e","r","v","e","n","t","i","o","n">>>>

\* lines 172-184
procedure_patterns ==
    << \* rf"\b([a-z]+)\s+({'|'.join(all_keywords)})\b"
       Cat(<<WB, Grp(1, Plus(Letter)), Plus(Space), Grp(2, Words(all_keywords)), WB>>),
       \* rf"\b({'|'.join(all_keywords)})\s+(?:of|on|for)\s+([a-z]+)\b"
       Cat(<<WB, Grp(1, Words(all_keywords)), Plus(Space),
             Words(<<<<"o","f">>, <<"o","n">>, <<"f","o","r">>>>), Plus(Space), Grp(2, Plus(Letter)), WB>>),
       \* rf"\b({'|'.join(all_keywords)})\b"
       Cat(<<WB, Grp(1, Words(all_keywords)), WB>>),
       \* rf"\b([a-z]+\s+(?:replacement|reconstruction|repair)(?:\s+surgery)?)\b"
       Cat(<<WB, Grp(1, Cat(<<Plus(Letter), Plus(Space),
                              Words(<<<<"r","e","p","l","a","c","e","m","e","n","t">>, <<"r","e","c","o","n","s","t","r","u","c","t","i","o","n">>, <<"r","e","p","a","i","r">>>>),
                              Opt(Cat(<<Plus(Space), Lit(<<"s","u","r","g","e","r","y">>)>>))>>)), WB>>) >>

\* lines 191-196: the longest of the matches, the earlier one on equal length
RECURSIVE LongestOf(_, _)
LongerText(best, text) == IF Len(text) > Len(best) THEN text ELSE best

LongestOf(ms, best) ==
    IF Len(ms) = 0 THEN best
    ELSE LongestOf(Tail(ms), LongerText(best, Strip(ms[1].text)))

\* lines 186-196: best_procedure after the patterns p.., "" for None
RECURSIVE BestProcedure(_, _, _)
BestProcedure(q_lower, p, best) ==
    IF p > Len(procedure_patterns) THEN best
    ELSE BestProcedure(q_lower, p + 1,
            LongestOf(FindIter(procedure_patterns[p], 2, q_lower), best))

\* lines 198-200
ProcedureOf(best_procedure) ==
    IF Len(best_procedure) = 0 THEN <<>>
    ELSE <<Title(JoinWords(Split(best_procedure)))>>

\* lines 74 and 88: the separate patterns fill what the combined ones left
AgeOf(q_lower, both) ==
    IF both.age = <<>> THEN ParseAgeOnly(q_lower, 1) ELSE both.age

GenderFound(q_lower, both) ==
    IF both.gender = <<>> THEN ParseGenderOnly(q_lower, 1) ELSE both.gender

\* lines 26-202, given the lowered and stripped query
Fields(query, q_lower, both) ==
    [raw_query |-> <<query>>,
     age |-> AgeOf(q_lower, both),
     gender |-> GenderFound(q_lower, both),
     procedure |-> ProcedureOf(BestProcedure(q_lower, 1, <<>>)),
     location |-> ParseLocation(q_lower, 1),
     policy_duration_months |-> ParseDuration(q_lower, 1)]

ParseLowered(query, q_lower) == Fields(query, q_lower, ParseAgeGender(q_lower, 1))

\* a query is <<>> (None, or not a string) or <<text>>
parse_query(query) ==
    IF query = <<>>
    THEN [raw_query |-> <<>>, age |-> <<>>, gender |-> <<>>, procedure |-> <<>>,
          location |-> <<>>, policy_duration_months |-> <<>>]
    ELSE IF Len(query[1]) = 0
    THEN [raw_query |-> query, age |-> <<>>, gender |-> <<>>, procedure |-> <<>>,
          location |-> <<>>, policy_duration_months |-> <<>>]
    ELSE ParseLowered(query[1], Strip(LowerOf(query[1])))

(***************************************************************************)
(* The texts, vectors and records of the model                             *)
(***************************************************************************)
\* the longest clause corpus
MaxClauses == 3

TextWaitKnee == \* "Waiting period of 24 months for Knee Surgery"
    <<"W","a","i","t","i","n","g"," ","p","e","r","i","o","d"," ","o","f"," ","2","4"," ","m","o","n","t","h","s"," ","f","o","r"," ","K","n","e","e"," ","S","u","r","g","e","r","y">>

TextWaitGeneric == \* "A waiting period of 90 days applies"
    <<"A"," ","w","a","i","t","i","n","g"," ","p","e","r","i","o","d"," ","o","f"," ","9","0"," ","d","a","y","s"," ","a","p","p","l","i","e","s">>

TextWaitMixed == \* "waiting period 2 years, 6-month for surgery"
    <<"w","a","i","t","i","n","g"," ","p","e","r","i","o","d"," ","2"," ","y","e","a","r","s",","," ","6","-","m","o","n","t","h"," ","f","o","r"," ","s","u","r","g","e","r","y">>

TextWaitUnstated == \* "Waiting period applies to knee surgery"
    <<"W","a","i","t","i","n","g"," ","p","e","r","i","o","d"," ","a","p","p","l","i","e","s"," ","t","o"," ","k","n","e","e"," ","s","u","r","g","e","r","y">>

TextWaitSurgery == \* "Waiting period of 36 months for any surgery"
    <<"W","a","i","t","i","n","g"," ","p","e","r","i","o","d"," ","o","f"," ","3","6"," ","m","o","n","t","h","s"," ","f","o","r"," ","a","n","y"," ","s","u","r","g","e","r","y">>

TextExcluded == \* "Dental treatment is Excluded"
    <<"D","e","n","t","a","l"," ","t","r","e","a","t","m","e","n","t"," ","i","s"," ","E","x","c","l","u","d","e","d">>

\* Embedding vectors.  E1 is stored with clauses; the encoder may return it
\* and the others for a procedure.  Against E1 they score 1, 1/2, 9/20, 3/10,
\* 1/4 and -1.
E1 == <<1, 0, 0, 0, 0>>

VHalf == <<1, 1, 1, 1, 0>>

V045 == <<9, 17, 5, 2, 1>>

V030 == <<3, 9, 3, 1, 0>>

V025 == <<1, 3, 2, 1, 1>>

VNeg == <<-1, 0, 0, 0, 0>>

\* a vector of another length than the stored ones
VShort == <<1, 0, 0>>

\* the records a corpus may hold: with or without text, with or without an
\* embedding, with an empty embedding
ClauseRecords ==
    { [text |-> TextWaitKnee, embedding |-> E1],
      [text |-> TextWaitGeneric],
      [text |-> TextExcluded, embedding |-> E1],
      [text |-> TextWaitMixed, embedding |-> <<>>],
      [embedding |-> E1] }

\* records for the waiting-period gate: clauses that mention a waiting period
\* with and without a number, for the procedure, for any surgery, for none
GateRecords ==
    { [text |-> TextWaitKnee, embedding |-> E1],
      [text |-> TextWaitUnstated],
      [text |-> TextWaitSurgery],
      [text |-> TextWaitGeneric] }

ClauseTexts ==
    {r.text : r \in {c \in ClauseRecords \cup GateRecords : "text" \in DOMAIN c}}

RECURSIVE SeqsUpTo(_, _)
Longer(S, shorter, n) ==
    shorter \cup {Append(s, x) : s \in {t \in shorter : Len(t) = n - 1}, x \in S}

SeqsUpTo(S, n) == IF n = 0 THEN {<<>>} ELSE Longer(S, SeqsUpTo(S, n - 1), n)

Corpora == SeqsUpTo(ClauseRecords, MaxClauses)

GateCorpora == SeqsUpTo(GateRecords, MaxClauses)

ProcKneeSurgery == <<"k","n","e","e"," ","s","u","r","g","e","r","y">>

ProcDentalTreatment == <<"d","e","n","t","a","l"," ","t","r","e","a","t","m","e","n","t">>

\* the dicts test_decision_engine hands to make_decision, and variations of
\* the first in its policy duration and its procedure
TestParsed(procedure, months) ==
    [age |-> <<46>>, gender |-> <<"Male">>, procedure |-> procedure,
     location |-> <<"Pune">>, policy_duration_months |-> months]

DirectInputs ==
    { <<>>,
      TestParsed(<<ProcKneeSurgery>>, <<12>>),
      TestParsed(<<ProcKneeSurgery>>, <<30>>),
      TestParsed(<<ProcKneeSurgery>>, <<>>),
      TestParsed(<<>>, <<12>>),
      [age |-> <<30>>, gender |-> <<"Female">>, procedure |-> <<ProcDentalTreatment>>,
       location |-> <<"Mumbai">>, policy_duration_months |-> <<12>>] }

\* the numbers and the unit words of the duration phrases handed to the
\* parser and to the extractor; the extractor knows the first eight units
DurationNumbers == {<<"0">>, <<"1">>, <<"1","5">>, <<"3","0">>, <<"4","5">>, <<"7","5">>}

ParserOnlyUnits == {<<"m","o">>, <<"m">>, <<"y">>, <<"d">>}

DurationUnits == Range(WaitUnits) \cup ParserOnlyUnits

\* "N unit"
Phrase(n, u) == n \o <<" ">> \o u

\* the shapes of a duration phrase
Phrases(n, u) ==
    { Phrase(n, u),
      n \o <<"-">> \o u \o <<" ","p","o","l","i","c","y">> }

PhraseQueries == UNION {Phrases(n, u) : n \in DurationNumbers, u \in DurationUnits}

\* the queries of test_parser and test_integration
TestQueries ==
    { <<"4","6","M"," ","k","n","e","e"," ","s","u","r","g","e","r","y"," ","6","-","m","o","n","t","h"," ","p","o","l","i","c","y"," ","P","u","n","e">>,
      <<"2","5"," ","f","e","m","a","l","e"," ","h","e","a","r","t"," ","s","u","r","g","e","r","y"," ","2"," ","y","e","a","r"," ","p","o","l","i","c","y"," ","M","u","m","b","a","i">>,
      <<"d","e","n","t","a","l"," ","t","r","e","a","t","m","e","n","t"," ","D","e","l","h","i">>,
      <<"4","6","M"," ","k","n","e","e"," ","r","e","p","l","a","c","e","m","e","n","t"," ","s","u","r","g","e","r","y"," ","3","0","-","m","o","n","t","h"," ","p","o","l","i","c","y"," ","P","u","n","e">>,
      <<"2","5","F"," ","h","e","a","r","t"," ","s","u","r","g","e","r","y"," ","1"," ","y","e","a","r"," ","p","o","l","i","c","y"," ","M","u","m","b","a","i">>,
      <<"3","5","M"," ","d","e","n","t","a","l"," ","t","r","e","a","t","m","e","n","t"," ","6"," ","m","o","n","t","h","s"," ","D","e","l","h","i">>,
      <<"4","0","F"," ","e","y","e"," ","s","u","r","g","e","r","y"," ","8","-","m","o","n","t","h"," ","p","o","l","i","c","y"," ","B","a","n","g","a","l","o","r","e">>,
      <<"5","5","M"," ","c","a","n","c","e","r"," ","t","r","e","a","t","m","e","n","t"," ","2"," ","m","o","n","t","h","s"," ","C","h","e","n","n","a","i">> }

\* the queries typed at the prompt of the main program
MainQueries ==
    { <<"4","6","M"," ","k","n","e","e"," ","s","u","r","g","e","r","y"," ","6","-","m","o","n","t","h"," ","p","o","l","i","c","y"," ","P","u","n","e">>,
      <<"k","n","e","e"," ","s","u","r","g","e","r","y",","," ","0"," ","m","o","n","t","h","s"," ","p","o","l","i","c","y">>,
      <<"d","e","n","t","a","l"," ","t","r","e","a","t","m","e","n","t"," ","D","e","l","h","i">> }

\* queries that name no city, one city, or several cities of the gazetteer
LocationQueries ==
    { <<"p","u","n","e"," ","d","e","l","h","i">>,
      <<"d","e","l","h","i"," ","p","u","n","e">>,
      <<"m","u","m","b","a","i"," ","n","e","w"," ","d","e","l","h","i">>,
      <<"N","e","w"," ","D","e","l","h","i">>,
      <<"b","e","n","g","a","l","u","r","u"," ","p","u","n","e">>,
      <<"p","u","n","e","r","i"," ","f","o","o","d">>,
      <<"p","u","n","e"," ","a","g","r","a">> }

\* queries in which the first combined pattern that matches captures an age
\* above 120 and a later one an age in range
CascadeQueries ==
    { <<"1","5","0","M"," ","4","6"," ","f","e","m","a","l","e">>,
      <<"1","3","0"," ","m","a","l","e",","," ","a","g","e"," ","4","0"," ","f","e","m","a","l","e">>,
      <<"m","a","l","e"," ","2","0","0"," ","a","g","e"," ","3","0">> }

\* queries with an age and gender token and no duration phrase
TokenQueries ==
    { <<"4","6","M"," ","k","n","e","e"," ","s","u","r","g","e","r","y">>,
      <<"2","5","F"," ","h","e","a","r","t"," ","s","u","r","g","e","r","y"," ","M","u","m","b","a","i">>,
      <<"4","6","/","m"," ","s","c","a","n">> }

\* texts with several mentions of a period, for the extractor
MentionTexts ==
    { <<"w","a","i","t","i","n","g"," ","p","e","r","i","o","d"," ","o","f"," ","2","4","m","o","n","t","h","s">>,
      <<"W","a","i","t","i","n","g"," ","p","e","r","i","o","d"," ","o","f"," ","2","4"," ","m","o","n","t","h","s">>,
      <<"0"," ","d","a","y","s",","," ","1","2","m","o","n","t","h","s"," ","a","n","d"," ","2","-","y","r">>,
      <<"w","a","i","t","i","n","g"," ","p","e","r","i","o","d"," ","0"," ","y","e","a","r","s">> }

\* what parse_query may be handed: None, "" or a text
ParseInputs ==
    {<<>>, <<<<>>>>}
      \cup {<<q>> : q \in PhraseQueries \cup TestQueries \cup MainQueries}
      \cup {<<q>> : q \in LocationQueries \cup CascadeQueries \cup TokenQueries
                              \cup MentionTexts}

\* a table is a set of pairs <<argument, value>>, computed once
InTable(table, key) == \E p \in table : p[1] = key

Lookup(table, key) == (CHOOSE p \in table : p[1] = key)[2]

\* parse_query, computed once for the queries of the model
ParseTable == {<<q, parse_query(q)>> : q \in ParseInputs}

Parsed(query) ==
    IF InTable(ParseTable, query) THEN Lookup(ParseTable, query) ELSE parse_query(query)

\* what encode may do with a procedure: return a vector or raise (<<>>)
ProcOutcomes ==
    { <<E1>>, <<VHalf>>, <<V045>>, <<V030>>, <<V025>>, <<VNeg>>,
      <<VShort>>, <<>> }

\* the strings the model lowers; each operator below that reads a text is
\* computed once for the texts of the model and looked up afterwards
ProcedureTexts ==
    {p["procedure"][1] :
        p \in {q \in DirectInputs \cup {Parsed(<<m>>) : m \in MainQueries} :
                 q # <<>> /\ q["procedure"] # <<>>}}

LowerTable == {<<t, LowerOf(t)>> : t \in ClauseTexts \cup ProcedureTexts}

Lower(s) == IF InTable(LowerTable, s) THEN Lookup(LowerTable, s) ELSE LowerOf(s)

LoweredClauseTexts == {LowerOf(t) : t \in ClauseTexts}

LoweredProcedures == {LowerOf(t) : t \in ProcedureTexts}

\* the texts handed to the extractor: the lowered clause texts and the queries
ExtractedTexts == LoweredClauseTexts \cup {q[1] : q \in ParseInputs \ {<<>>}}

PeriodsTable == {<<t, ExtractWaitingPeriods(t)>> : t \in ExtractedTexts}

extract_waiting_periods(text) ==
    IF InTable(PeriodsTable, text) THEN Lookup(PeriodsTable, text)
    ELSE ExtractWaitingPeriods(text)
(***************************************************************************)
(* Similarity Engine: compute_similarity                                   *)
(***************************************************************************)
\* line 175: max(0.0, min(1.0, float(similarity)))
Clamp(similarity) == RMax(Zero, RMin(One, similarity))

\* An encoder outcome is <<v>> (encode returned the vector v) or <<>> (encode
\* raised).  out1 and out2 are the outcomes of encoding text1 and text2; np.dot
\* raises on vectors of two lengths.
compute_similarity(model, text1, text2, out1, out2) ==
    IF model = "None" \/ Len(text1) = 0 \/ Len(text2) = 0 THEN Zero
    ELSE IF out1 = <<>> \/ out2 = <<>> THEN Zero
    ELSE IF Len(out1[1]) # Len(out2[1]) THEN Zero
    ELSE Clamp(Cosine(out1[1], out2[1]))

(***************************************************************************)
(* Decision Engine: check_waiting_period                                   *)
(***************************************************************************)
\* dict.get: None (the empty sequence) for a key the dict lacks
Get(parsed, key) == IF key \in DOMAIN parsed THEN parsed[key] ELSE <<>>

\* `not x` of an optional number and of an optional string
FalsyNum(v) == v = <<>> \/ v[1] = 0

FalsyStr(v) == v = <<>> \/ Len(v[1]) = 0

\* line 212: "waiting period" in clause_text
MentionsCompute(clause_text) == Contains(clause_text, <<"w","a","i","t","i","n","g"," ","p","e","r","i","o","d">>)

MentionsTable == {<<t, MentionsCompute(t)>> : t \in LoweredClauseTexts}

MentionsWaitingPeriod(clause_text) ==
    IF InTable(MentionsTable, clause_text) THEN Lookup(MentionsTable, clause_text)
    ELSE MentionsCompute(clause_text)

\* lines 200 and 216-220: a procedure word longer than 2 occurs in the clause
LexicalCompute(procedure, clause_text) ==
    \E term \in Range(Split(procedure)) :
        Len(term) > 2 /\ Contains(clause_text, term)

LexicalTable ==
    {<<pt, LexicalCompute(pt[1], pt[2])>> : pt \in LoweredProcedures \X LoweredClauseTexts}

LexicallyMentioned(procedure, clause_text) ==
    IF InTable(LexicalTable, <<procedure, clause_text>>)
    THEN Lookup(LexicalTable, <<procedure, clause_text>>)
    ELSE LexicalCompute(procedure, clause_text)

\* lines 206-223: the loop pass of this clause reaches compute_similarity
SimilarityConsulted(model, procedure, clause) ==
    /\ "text" \in DOMAIN clause
    /\ MentionsWaitingPeriod(Lower(clause.text))
    /\ ~LexicallyMentioned(procedure, Lower(clause.text))
    /\ model # "None"

\* lines 223-227: the similarity test, for a clause text without a lexical hit
SemanticallyMentioned(model, procedure, clause_text, out1, out2) ==
    /\ model # "None"
    /\ RLess(Rat(3, 10), compute_similarity(model, procedure, clause_text, out1, out2))

\* lines 206-231: procedure_mentioned at the end of the loop pass of clause i,
\* given its lowered text; enc holds the encoder's outcomes during the call
MentionedIn(model, procedure, clause_text, i, enc) ==
    /\ MentionsWaitingPeriod(clause_text)
    /\ \/ LexicallyMentioned(procedure, clause_text)
       \/ SemanticallyMentioned(model, procedure, clause_text,
                                enc.proc_lower, enc.clause_text[i])

ProcedureMentioned(model, procedure, clause, i, enc) ==
    /\ "text" \in DOMAIN clause
    /\ MentionedIn(model, procedure, Lower(clause.text), i, enc)

\* lines 231-235: what the loop pass of a clause adds to the two lists
Collected(acc, clause, mentioned, periods) ==
    IF mentioned /\ periods # <<>>
    THEN [waiting_periods |-> acc.waiting_periods \o periods,
          relevant_clauses |-> Append(acc.relevant_clauses, clause.text)]
    ELSE acc

\* lines 202-235: [waiting_periods, relevant_clauses] after the loop
RECURSIVE WaitingLoop(_, _, _, _, _, _)
WaitingLoop(all_clauses, model, procedure, enc, i, acc) ==
    IF i > Len(all_clauses) THEN acc
    ELSE WaitingLoop(all_clauses, model, procedure, enc, i + 1,
            Collected(acc, all_clauses[i],
                      ProcedureMentioned(model, procedure, all_clauses[i], i, enc),
                      extract_waiting_periods(Lower(all_clauses[i].text))))

WaitingScan(all_clauses, model, procedure, enc) ==
    WaitingLoop(all_clauses, model, procedure, enc, 1,
                [waiting_periods |-> <<>>, relevant_clauses |-> <<>>])

\* relevant_clauses[-2:] for the [:2] of line 246
LastTwo(xs) == SubSeq(xs, Max(1, Len(xs) - 1), Len(xs))

\* relevant_clauses[:2]
FirstTwo(xs) == SubSeq(xs, 1, Min(2, Len(xs)))

\* lines 240-248
Rejection(parsed, policy_duration, min_required, relevant_clauses) ==
    [decision |-> "rejected",
     justification |-> <<[msg |-> "waiting period not met",
                          policy_duration |-> policy_duration,
                          min_required |-> min_required,
                          procedure |-> parsed["procedure"]]>>,
     clauses |-> FirstTwo(relevant_clauses),
     confidence |-> Rat(9, 10)]

\* lines 237-250 with <= for < in line 239
GateOutcomeAtMost(parsed, policy_duration, scan) ==
    IF Len(scan.waiting_periods) = 0 THEN <<>>
    ELSE IF policy_duration <= MinOf(scan.waiting_periods)
         THEN <<Rejection(parsed, policy_duration, MinOf(scan.waiting_periods),
                          scan.relevant_clauses)>>
         ELSE <<>>

\* lines 237-250: <<decision>>, or <<>> for None
GateOutcome(parsed, policy_duration, scan) ==
    IF Len(scan.waiting_periods) = 0 THEN <<>>
    ELSE IF policy_duration < MinOf(scan.waiting_periods)
         THEN <<Rejection(parsed, policy_duration, MinOf(scan.waiting_periods),
                          scan.relevant_clauses)>>
         ELSE <<>>

\* lines 191-194: the gate does not apply
GateSkipped(parsed, all_clauses) ==
    \/ FalsyNum(Get(parsed, "policy_duration_months"))
    \/ FalsyStr(Get(parsed, "procedure"))
    \/ Len(all_clauses) = 0

check_waiting_period(parsed, all_clauses, model, enc) ==
    IF GateSkipped(parsed, all_clauses) THEN <<>>
    ELSE GateOutcome(parsed, parsed["policy_duration_months"][1],
                     WaitingScan(all_clauses, model, Lower(parsed["procedure"][1]), enc))

(***************************************************************************)
(* Decision Engine: check_procedure_coverage and make_decision             *)
(***************************************************************************)
exclusion_keywords ==
    <<<<"n","o","t"," ","c","o","v","e","r","e","d">>,
      <<"e","x","c","l","u","d","e","d">>,
      <<"n","o","t"," ","p","a","y","a","b","l","e">>,
      <<"n","o","t"," ","e","l","i","g","i","b","l","e">>,
      <<"e","x","c","e","p","t">>,
      <<"e","x","c","l","u","d","i","n","g">>,
      <<"d","o","e","s"," ","n","o","t"," ","c","o","v","e","r">>,
      <<"s","h","a","l","l"," ","n","o","t">>,
      <<"n","o","t"," ","a","p","p","l","i","c","a","b","l","e">>,
      <<"n","o","t"," ","i","n","c","l","u","d","e","d">>>>

\* line 318: is_excluded, of the lowered text of the best match
ExcludedCompute(clause_text) ==
    \E k \in DOMAIN exclusion_keywords : Contains(clause_text, exclusion_keywords[k])

ExcludedTable == {<<t, ExcludedCompute(t)>> : t \in LoweredClauseTexts}

IsExcluded(clause_text) ==
    IF InTable(ExcludedTable, clause_text) THEN Lookup(ExcludedTable, clause_text)
    ELSE ExcludedCompute(clause_text)

\* lines 290-292 with >= for >: the clause seen last wins a tie
BetterOrEqual(acc, clause, similarity) ==
    IF RLeq(acc.best_score, similarity)
    THEN [best_match |-> <<clause>>, best_score |-> similarity]
    ELSE acc

\* lines 290-292
Better(acc, clause, similarity) ==
    IF RLess(acc.best_score, similarity)
    THEN [best_match |-> <<clause>>, best_score |-> similarity]
    ELSE acc

\* lines 279-296: one loop pass; a clause without embedding or with an empty
\* one is skipped, and so is one whose embedding np.dot refuses
Scored(acc, clause, proc_emb) ==
    IF "embedding" \notin DOMAIN clause THEN acc
    ELSE IF Len(clause.embedding) = 0 THEN acc
    ELSE IF Len(clause.embedding) # Len(proc_emb) THEN acc
    ELSE Better(acc, clause, Cosine(proc_emb, clause.embedding))

\* lines 271-296: [best_match |-> <<>> or <<clause>>, best_score] after the loop
RECURSIVE CoverageLoop(_, _, _, _)
CoverageLoop(all_clauses, proc_emb, i, acc) ==
    IF i > Len(all_clauses) THEN acc
    ELSE CoverageLoop(all_clauses, proc_emb, i + 1, Scored(acc, all_clauses[i], proc_emb))

BestMatch(all_clauses, proc_emb) ==
    CoverageLoop(all_clauses, proc_emb, 1, [best_match |-> <<>>, best_score |-> Zero])

Decision(decision, justification, clauses, confidence) ==
    [decision |-> decision,
     justification |-> <<justification>>,
     clauses |-> clauses,
     confidence |-> confidence]

\* an exception leaving make_decision
Raised(exception) == [raised |-> exception]

\* lines 309-339 without the cap of line 328
HighMatchUncapped(procedure, best_match, best_score) ==
    IF "text" \notin DOMAIN best_match THEN Raised("KeyError")
    ELSE IF IsExcluded(Lower(best_match.text))
    THEN Decision("rejected",
                  [msg |-> "excluded", procedure |-> procedure, similarity |-> best_score],
                  <<best_match.text>>,
                  RAdd(best_score, Rat(1, 10)))
    ELSE Decision("approved",
                  [msg |-> "covered", procedure |-> procedure, similarity |-> best_score],
                  <<best_match.text>>,
                  best_score)

\* lines 309-339, procedure being parsed["procedure"]; best_match["text"]
\* raises KeyError on a clause without text
HighMatch(procedure, best_match, best_score) ==
    IF "text" \notin DOMAIN best_match THEN Raised("KeyError")
    ELSE IF IsExcluded(Lower(best_match.text))
    THEN Decision("rejected",
                  [msg |-> "excluded", procedure |-> procedure, similarity |-> best_score],
                  <<best_match.text>>,
                  RMin(Rat(9, 10), RAdd(best_score, Rat(1, 10))))
    ELSE Decision("approved",
                  [msg |-> "covered", procedure |-> procedure, similarity |-> best_score],
                  <<best_match.text>>,
                  best_score)

\* lines 342-350
LowMatch(procedure, best_match, best_score) ==
    IF "text" \notin DOMAIN best_match THEN Raised("KeyError")
    ELSE Decision("needs_review",
                  [msg |-> "potential coverage", procedure |-> procedure,
                   similarity |-> best_score],
                  <<best_match.text>>,
                  best_score)

\* lines 353-360
NoMatch(procedure) ==
    Decision("needs_review", [msg |-> "not found", procedure |-> procedure], <<>>, Zero)

\* lines 307-360: the decision on the best match
ClassifyBest(procedure, best) ==
    IF best.best_match # <<>> /\ RLess(Rat(45, 100), best.best_score)
    THEN HighMatch(procedure, best.best_match[1], best.best_score)
    ELSE IF best.best_match # <<>> /\ RLess(Rat(25, 100), best.best_score)
    THEN LowMatch(procedure, best.best_match[1], best.best_score)
    ELSE NoMatch(procedure)

\* line 262 with and for or: the classifier runs unless it lacks everything
CoverageSkippedAll(parsed, all_clauses, model) ==
    /\ FalsyStr(Get(parsed, "procedure"))
    /\ Len(all_clauses) = 0
    /\ model = "None"

\* line 262: the classifier lacks what it needs
CoverageSkipped(parsed, all_clauses, model) ==
    \/ FalsyStr(Get(parsed, "procedure"))
    \/ Len(all_clauses) = 0
    \/ model = "None"

check_procedure_coverage(parsed, all_clauses, model, enc) ==
    IF CoverageSkipped(parsed, all_clauses, model)
    THEN Decision("needs_review", [msg |-> "missing information"], <<>>, Zero)
    ELSE IF enc.proc = <<>>
    THEN Decision("needs_review", [msg |-> "error in semantic analysis"], <<>>, Zero)
    ELSE ClassifyBest(parsed["procedure"], BestMatch(all_clauses, enc.proc[1]))

\* lines 386-388: the outcome of the classifier is the outcome of the call
AfterCoverage(coverage_decision) ==
    [calls |-> <<"check_waiting_period", "check_procedure_coverage">>,
     waiting_decision |-> <<>>,
     coverage_decision |-> <<coverage_decision>>,
     result |-> coverage_decision]

\* lines 381-388 without line 382: the classifier decides every query
AfterGateIgnored(parsed, all_clauses, model, enc, waiting_decision) ==
    AfterCoverage(check_procedure_coverage(parsed, all_clauses, model, enc))

\* lines 381-388
AfterGate(parsed, all_clauses, model, enc, waiting_decision) ==
    IF waiting_decision # <<>>
    THEN [calls |-> <<"check_waiting_period">>,
          waiting_decision |-> waiting_decision,
          coverage_decision |-> <<>>,
          result |-> waiting_decision[1]]
    ELSE AfterCoverage(check_procedure_coverage(parsed, all_clauses, model, enc))

\* the stages one make_decision call runs, its locals and its outcome
make_decision(parsed, all_clauses, model, enc) ==
    IF parsed = <<>>
    THEN [calls |-> <<>>,
          waiting_decision |-> <<>>,
          coverage_decision |-> <<>>,
          result |-> Decision("needs_review", [msg |-> "invalid or empty query"],
                              <<>>, Zero)]
    ELSE AfterGate(parsed, all_clauses, model, enc,
                   check_waiting_period(parsed, all_clauses, model, enc))

(***************************************************************************)
(* The encoder during one call                                             *)
(***************************************************************************)
\* the clauses for which check_waiting_period calls compute_similarity
Consulted(parsed, all_clauses, model) ==
    IF parsed = <<>> \/ GateSkipped(parsed, all_clauses) THEN {}
    ELSE {i \in DOMAIN all_clauses :
            SimilarityConsulted(model, Lower(parsed["procedure"][1]), all_clauses[i])}

\* The outcomes of the encode calls of the gate: encode(procedure.lower()) and
\* encode(clause_text) in compute_similarity.  A call that is not made has the
\* entry <<>>.  For a clause text encode returns E1 or raises.
GateRuns(all_clauses, consulted) ==
    IF consulted = {}
    THEN {[proc_lower |-> <<>>, proc |-> <<>>,
           clause_text |-> [i \in DOMAIN all_clauses |-> <<>>]]}
    ELSE {[proc_lower |-> pl, proc |-> <<>>,
           clause_text |-> [i \in DOMAIN all_clauses |->
                               IF i \in ok THEN <<E1>> ELSE <<>>]] :
             pl \in ProcOutcomes, ok \in SUBSET consulted}

\* The outcomes of encode(procedure) in check_procedure_coverage (line 276)
\* after a gate that ran as g: the call is made when the gate returned None
\* and the classifier has what it needs; without a model the call raises.
\* The encoder returns the same for the same text, so a procedure the gate
\* encoded gets that outcome again when lowering did not change it.
CoverageRuns(parsed, all_clauses, model, g, consulted) ==
    IF parsed = <<>> \/ CoverageSkipped(parsed, all_clauses, model) THEN {<<>>}
    ELSE IF model = "None" THEN {<<>>}
    ELSE IF check_waiting_period(parsed, all_clauses, model, g) # <<>> THEN {<<>>}
    ELSE IF consulted # {} /\ Lower(parsed["procedure"][1]) = parsed["procedure"][1]
         THEN {g.proc_lower}
         ELSE ProcOutcomes

(***************************************************************************)
(* The processor and its requests                                          *)
(***************************************************************************)
VARIABLES
    all_clauses,        \* self.all_clauses
    model,              \* self.model: "None" or "loaded"
    pc,                 \* where the caller is: "idle", "returned", "parsed", "extracted"
    user_query,         \* the text handed to parse_query, <<>> for none
    parsed,             \* what parse_query returned, the argument of make_decision
    periods,            \* what extract_waiting_periods returned for the text
    enc,                \* what the encoder did during the make_decision call
    calls,              \* the stages that call ran, in order
    waiting_decision,   \* its local waiting_decision, <<>> for None
    coverage_decision,  \* its local coverage_decision, <<>> while unassigned
    result,             \* what it returned or raised
    clauses_file,       \* self.clauses_file
    files,              \* the JSON files on disk: <<>> for none, <<records>>
    startup,            \* what the constructor of this processor did
    previous            \* the processor constructed before this one, <<>> for none

vars == <<all_clauses, model, pc, user_query, parsed, periods, enc, calls,
          waiting_decision, coverage_decision, result, clauses_file, files,
          startup, previous>>

\* the variables of the store and the constructor
store == <<clauses_file, files, startup, previous>>

\* the default of clauses_file (line 26) and the file of line 98
default_file == "all_clauses.json"

output_file == "all_clauses_with_embeddings.json"

FileNames == {default_file, output_file}

NoFiles == [f \in FileNames |-> <<>>]

\* loaded: what json.load gave; computed: the records encode was called for;
\* encoded: what encode did for each record, <<v>> or <<>> for raising;
\* saved: "no" (not tried), "written" or "failed"
NoStartup == [loaded |-> <<>>, computed |-> {}, encoded |-> <<>>, saved |-> "no"]

\* a processor that was handed its corpus and encoder
HandedIn ==
    /\ clauses_file = default_file
    /\ files = NoFiles
    /\ startup = NoStartup
    /\ previous = <<>>

NoEncoderRun == [proc_lower |-> <<>>, proc |-> <<>>, clause_text |-> <<>>]

\* a processor whose corpus and encoder were loaded (lines 36-41; a failed
\* load leaves [] and None) or handed in (lines 396-402)
Init ==
    /\ all_clauses \in Corpora
    /\ model \in {"None", "loaded"}
    /\ pc = "idle"
    /\ user_query = <<>>
    /\ parsed = <<>>
    /\ periods = <<>>
    /\ enc = NoEncoderRun
    /\ calls = <<>>
    /\ waiting_decision = <<>>
    /\ coverage_decision = <<>>
    /\ result = <<>>
    /\ HandedIn

\* a call that drops the last clause of the corpus as it returns
ReturnsShortened(q, p, e, run) ==
    /\ pc' = "returned"
    /\ user_query' = q
    /\ parsed' = p
    /\ enc' = e
    /\ calls' = run.calls
    /\ waiting_decision' = run.waiting_decision
    /\ coverage_decision' = run.coverage_decision
    /\ result' = run.result
    /\ all_clauses' = SubSeq(all_clauses, 1, Len(all_clauses) - 1)
    /\ UNCHANGED <<model, periods>>
    /\ UNCHANGED store

Returns(q, p, e, run) ==
    /\ pc' = "returned"
    /\ user_query' = q
    /\ parsed' = p
    /\ enc' = e
    /\ calls' = run.calls
    /\ waiting_decision' = run.waiting_decision
    /\ coverage_decision' = run.coverage_decision
    /\ result' = run.result
    /\ UNCHANGED <<all_clauses, model, periods>>
    /\ UNCHANGED store

Runs(q, p, g, consulted) ==
    \E out \in CoverageRuns(p, all_clauses, model, g, consulted) :
        Returns(q, p, [g EXCEPT !.proc = out],
                make_decision(p, all_clauses, model, [g EXCEPT !.proc = out]))

Decides(q, p, consulted) ==
    \E g \in GateRuns(all_clauses, consulted) : Runs(q, p, g, consulted)

\* processor.make_decision(p), as test_decision_engine calls it
MakeDecision(p) ==
    /\ pc = "idle"
    /\ Decides(<<>>, p, Consulted(p, all_clauses, model))

\* lines 410-420: the main program parses the query and decides on the result
MainQuery(q) ==
    /\ pc = "idle"
    /\ Decides(<<q>>, Parsed(<<q>>), Consulted(Parsed(<<q>>), all_clauses, model))

\* the caller takes the outcome and turns to its next query
NextRequest ==
    /\ pc = "returned"
    /\ pc' = "idle"
    /\ user_query' = <<>>
    /\ parsed' = <<>>
    /\ enc' = NoEncoderRun
    /\ calls' = <<>>
    /\ waiting_decision' = <<>>
    /\ coverage_decision' = <<>>
    /\ result' = <<>>
    /\ UNCHANGED <<all_clauses, model, periods>>
    /\ UNCHANGED store

Next ==
    \/ \E p \in DirectInputs : MakeDecision(p)
    \/ \E q \in MainQueries : MainQuery(q)
    \/ NextRequest

Spec == Init /\ [][Next]_vars

\* the processor over corpora of waiting-period clauses
InitGate ==
    /\ all_clauses \in GateCorpora
    /\ model \in {"None", "loaded"}
    /\ pc = "idle"
    /\ user_query = <<>>
    /\ parsed = <<>>
    /\ periods = <<>>
    /\ enc = NoEncoderRun
    /\ calls = <<>>
    /\ waiting_decision = <<>>
    /\ coverage_decision = <<>>
    /\ result = <<>>
    /\ HandedIn

SpecGate == InitGate /\ [][Next]_vars

(***************************************************************************)
(* The parser and the extractor on one text                                *)
(***************************************************************************)
InitParse ==
    /\ user_query \in ParseInputs
    /\ pc = "idle"
    /\ parsed = <<>>
    /\ periods = <<>>
    /\ all_clauses = <<>>
    /\ model = "None"
    /\ enc = NoEncoderRun
    /\ calls = <<>>
    /\ waiting_decision = <<>>
    /\ coverage_decision = <<>>
    /\ result = <<>>
    /\ HandedIn

\* pr.parse_query(query), as test_parser calls it
ParseQuery ==
    /\ pc = "idle"
    /\ pc' = "parsed"
    /\ parsed' = Parsed(user_query)
    /\ UNCHANGED <<all_clauses, model, user_query, periods, enc, calls, waiting_decision,
                   coverage_decision, result>>
    /\ UNCHANGED store

\* extract_waiting_periods(text) on what was handed to the parser (lines
\* 391-394); None is not a text and gives [] (line 120)
ExtractPeriods ==
    /\ pc = "parsed"
    /\ pc' = "extracted"
    /\ periods' = IF user_query = <<>> THEN <<>>
                  ELSE extract_waiting_periods(user_query[1])
    /\ UNCHANGED <<all_clauses, model, user_query, parsed, enc, calls, waiting_decision,
                   coverage_decision, result>>
    /\ UNCHANGED store

NextParse ==
    \/ ParseQuery
    \/ ExtractPeriods

SpecParse == InitParse /\ [][NextParse]_vars

(***************************************************************************)
(* The constructor: _load_clauses, _load_model, _ensure_embeddings         *)
(***************************************************************************)
\* the longest corpus a file holds
MaxStored == 2

\* the records a file may hold: a text without an embedding, a text with its
\* embedding, an embedding without a text
StoredRecords ==
    { [text |-> TextExcluded],
      [text |-> TextWaitKnee, embedding |-> E1],
      [embedding |-> E1] }

\* what the file named clauses_file may hold: nothing (no file), or a list
FileContents == {<<>>} \cup {<<s>> : s \in SeqsUpTo(StoredRecords, MaxStored)}

\* lines 46-60: the list of the file; [] for no file and for an empty list
LoadedFrom(content) == IF content = <<>> THEN <<>> ELSE content[1]

\* line 79
has_embeddings(clauses) ==
    \A i \in DOMAIN clauses : "embedding" \in DOMAIN clauses[i]

\* lines 85-94 with `pass` for line 94: a failed record stays as it was
WithEmbeddingOrNone(clause, out) ==
    IF "text" \notin DOMAIN clause \/ out = <<>> THEN clause
    ELSE [text |-> clause.text, embedding |-> out[1]]

\* lines 85-94: the record after its pass of the loop, out being what encode
\* did with its text
WithEmbedding(clause, out) ==
    IF "text" \notin DOMAIN clause THEN clause
    ELSE IF out = <<>> THEN [text |-> clause.text, embedding |-> <<>>]
    ELSE [text |-> clause.text, embedding |-> out[1]]

\* lines 84-94: the corpus after the loop
Embedded(clauses, outs) ==
    [i \in DOMAIN clauses |-> WithEmbedding(clauses[i], outs[i])]

\* the records encode is called for (lines 85-90)
WithText(clauses) == {i \in DOMAIN clauses : "text" \in DOMAIN clauses[i]}

\* what encode may do in the loop: return the embedding of the text, or raise
EncodeOutcomes(clauses) ==
    {outs \in [DOMAIN clauses -> {<<E1>>, <<>>}] :
        \A i \in DOMAIN clauses : i \notin WithText(clauses) => outs[i] = <<>>}

\* lines 97-103: json.dump to output_file, which may fail
Saved(written, clauses) ==
    IF written THEN [files EXCEPT ![output_file] = <<clauses>>] ELSE files

\* a process starts: nothing is constructed yet
InitLife ==
    /\ pc = "new"
    /\ all_clauses = <<>>
    /\ model = "None"
    /\ user_query = <<>>
    /\ parsed = <<>>
    /\ periods = <<>>
    /\ enc = NoEncoderRun
    /\ calls = <<>>
    /\ waiting_decision = <<>>
    /\ coverage_decision = <<>>
    /\ result = <<>>
    /\ clauses_file \in FileNames
    /\ \E content \in FileContents :
          files = [f \in FileNames |-> IF f = clauses_file THEN content ELSE <<>>]
    /\ startup = NoStartup
    /\ previous = <<>>

\* lines 44-60
LoadClauses ==
    /\ pc = "new"
    /\ pc' = "clauses"
    /\ all_clauses' = LoadedFrom(files[clauses_file])
    /\ startup' = [NoStartup EXCEPT !.loaded = LoadedFrom(files[clauses_file])]
    /\ UNCHANGED <<model, user_query, parsed, periods, enc, calls, waiting_decision,
                   coverage_decision, result, clauses_file, files, previous>>

\* lines 62-69
LoadModel ==
    /\ pc = "clauses"
    /\ pc' = "model"
    /\ model' \in {"None", "loaded"}
    /\ UNCHANGED <<all_clauses, user_query, parsed, periods, enc, calls,
                   waiting_decision, coverage_decision, result, store>>

\* lines 81-103: the loop over all records and the save
Computes(outs, written) ==
    /\ all_clauses' = Embedded(all_clauses, outs)
    /\ files' = Saved(written, Embedded(all_clauses, outs))
    /\ startup' = [startup EXCEPT !.computed = WithText(all_clauses),
                                  !.encoded = outs,
                                  !.saved = IF written THEN "written" ELSE "failed"]

\* lines 71-108
EnsureEmbeddings ==
    /\ pc = "model"
    /\ pc' = "idle"
    /\ IF Len(all_clauses) = 0 \/ model = "None" \/ has_embeddings(all_clauses)
       THEN UNCHANGED <<all_clauses, files, startup>>
       ELSE \E outs \in EncodeOutcomes(all_clauses), written \in BOOLEAN :
               Computes(outs, written)
    /\ UNCHANGED <<model, user_query, parsed, periods, enc, calls, waiting_decision,
                   coverage_decision, result, clauses_file, previous>>

\* the process ends and the program is started again with the same
\* configuration; the model follows a processor and the one after it
Restart ==
    /\ pc = "idle"
    /\ previous = <<>>
    /\ pc' = "new"
    /\ previous' = <<[all_clauses |-> all_clauses, startup |-> startup]>>
    /\ all_clauses' = <<>>
    /\ model' = "None"
    /\ startup' = NoStartup
    /\ UNCHANGED <<user_query, parsed, periods, enc, calls, waiting_decision,
                   coverage_decision, result, clauses_file, files>>

\* the parsed query of the calls that follow the constructor
LifeInputs ==
    { [age |-> <<30>>, gender |-> <<"Female">>, procedure |-> <<ProcDentalTreatment>>,
       location |-> <<"Mumbai">>, policy_duration_months |-> <<12>>] }

NextLife ==
    \/ LoadClauses
    \/ LoadModel
    \/ EnsureEmbeddings
    \/ \E p \in LifeInputs : MakeDecision(p)
    \/ NextRequest
    \/ Restart

SpecLife == InitLife /\ [][NextLife]_vars

(***************************************************************************)
(* Properties of make_decision                                             *)
(***************************************************************************)
\* make_decision has ended
Returned == pc = "returned"

\* it ended by returning a record, not by raising
ReturnedRecord == Returned /\ "decision" \in DOMAIN result

KnownProcedure == parsed # <<>> /\ ~FalsyStr(Get(parsed, "procedure"))

KnownDuration == parsed # <<>> /\ Get(parsed, "policy_duration_months") # <<>>

\* the waiting periods of the clauses relevant to the procedure of the call
Pool ==
    WaitingScan(all_clauses, model, Lower(parsed["procedure"][1]), enc).waiting_periods

\* the clauses the classifier can score against the vector v: those with an
\* embedding of its length
Scorable(v) ==
    {i \in DOMAIN all_clauses :
        /\ "embedding" \in DOMAIN all_clauses[i]
        /\ Len(all_clauses[i].embedding) > 0
        /\ Len(all_clauses[i].embedding) = Len(v)}

Score(v, i) == Cosine(v, all_clauses[i].embedding)

\* the clauses that score best against v, none when no score is above 0
Best(v) ==
    {i \in Scorable(v) :
        /\ RLess(Zero, Score(v, i))
        /\ \A j \in Scorable(v) : RLeq(Score(v, j), Score(v, i))}

\* the earliest of them
First(S) == CHOOSE i \in S : \A j \in S : i <= j

\* the classifier ran with a procedure, a corpus and an encoder that returned
\* a vector for the procedure
ClassifierWorked ==
    /\ Returned
    /\ calls = <<"check_waiting_period", "check_procedure_coverage">>
    /\ KnownProcedure
    /\ Len(all_clauses) > 0
    /\ model = "loaded"
    /\ enc.proc # <<>>

HasText(i) == "text" \in DOMAIN all_clauses[i]

Is(decision, confidence) ==
    /\ ReturnedRecord
    /\ result.decision = decision
    /\ result.confidence = confidence

\* C1: the record make_decision returns has a confidence between 0 and 1
\* inclusive, for every parsed query, corpus and encoder outcome.
C1_ConfidenceInUnitInterval ==
    ReturnedRecord => RLeq(Zero, result.confidence) /\ RLeq(result.confidence, One)

\* a best score of 1 on an excluding clause: 1 + 0.1 is capped to 0.9
C1_CappedConfidence ==
    /\ ClassifierWorked
    /\ enc.proc = <<E1>>
    /\ Is("rejected", Rat(9, 10))

\* C2: with procedure and policy duration known, a corpus, and a non-empty
\* pool of waiting periods of the relevant clauses whose minimum exceeds the
\* policy duration, make_decision returns rejected with confidence 0.9 and one
\* or two clause texts.
C2_GateRejects ==
    (/\ Returned
     /\ KnownProcedure
     /\ KnownDuration
     /\ Len(all_clauses) > 0
     /\ Pool # <<>>
     /\ parsed["policy_duration_months"][1] < MinOf(Pool))
    => /\ Is("rejected", Rat(9, 10))
       /\ Len(result.clauses) \in {1, 2}

\* C3: make_decision runs the gate first; the decision of the gate is
\* returned without the classifier running, and when the gate yields none the
\* outcome is exactly the outcome of the classifier.
C3_GateThenClassifier ==
    (Returned /\ parsed # <<>>)
    => /\ waiting_decision = check_waiting_period(parsed, all_clauses, model, enc)
       /\ IF waiting_decision # <<>>
          THEN /\ calls = <<"check_waiting_period">>
               /\ coverage_decision = <<>>
               /\ result = waiting_decision[1]
          ELSE /\ calls = <<"check_waiting_period", "check_procedure_coverage">>
               /\ coverage_decision =
                     <<check_procedure_coverage(parsed, all_clauses, model, enc)>>
               /\ result = coverage_decision[1]

\* the gate rejected with a loaded encoder and a stored embedding at hand
C3_GateShortCircuits ==
    /\ Returned
    /\ model = "loaded"
    /\ Scorable(E1) # {}
    /\ calls = <<"check_waiting_period">>
    /\ result.decision = "rejected"

\* C4: when the classifier ran with procedure, corpus and working encoder,
\* decision and confidence follow the best score s: above 0.45 rejected with
\* min(0.9, s + 0.1) on an exclusion keyword in the best clause and approved
\* with s without one; above 0.25 needs_review with s; otherwise, or with no
\* clause scored, needs_review with 0.
C4_Bands ==
    ClassifierWorked
    => LET best == Best(enc.proc[1])
           s == Score(enc.proc[1], First(best))
       IN  IF best = {}
           THEN Is("needs_review", Zero)
           ELSE IF RLess(Rat(45, 100), s)
           THEN /\ HasText(First(best))
                /\ IF IsExcluded(Lower(all_clauses[First(best)].text))
                   THEN Is("rejected", RMin(Rat(9, 10), RAdd(s, Rat(1, 10))))
                   ELSE Is("approved", s)
           ELSE IF RLess(Rat(25, 100), s)
           THEN Is("needs_review", s)
           ELSE Is("needs_review", Zero)

\* C5, as the spec states it: in every branch of the classifier the clauses
\* list holds exactly the text of the best-scoring clause with an embedding,
\* the earliest on a tie, and is empty only when no clause was scored.
C5_CitesBestInEveryBranch ==
    ClassifierWorked
    => LET best == Best(enc.proc[1])
       IN  /\ ReturnedRecord
           /\ IF best = {}
              THEN result.clauses = <<>>
              ELSE /\ HasText(First(best))
                   /\ result.clauses = <<all_clauses[First(best)].text>>

\* C5, amended: with a best score above 0.25 the clauses list holds exactly
\* the text of the best-scoring clause, the earliest on a tie, and the call
\* raises KeyError when that clause has no text; with a best score of 0.25 or
\* less, or no clause scored, the list is empty.
C5_CitesBestAboveQuarter ==
    ClassifierWorked
    => LET best == Best(enc.proc[1])
       IN  IF best # {} /\ RLess(Rat(25, 100), Score(enc.proc[1], First(best)))
           THEN IF HasText(First(best))
                THEN /\ ReturnedRecord
                     /\ result.clauses = <<all_clauses[First(best)].text>>
                ELSE result = Raised("KeyError")
           ELSE /\ ReturnedRecord
                /\ result.clauses = <<>>

\* two clauses tie at 1/2 and the first is cited
C5_TieCitesFirst ==
    /\ ClassifierWorked
    /\ enc.proc = <<VHalf>>
    /\ Len(all_clauses) >= 2
    /\ all_clauses[1] = [text |-> TextWaitKnee, embedding |-> E1]
    /\ all_clauses[2] = [text |-> TextExcluded, embedding |-> E1]
    /\ result.clauses = <<TextWaitKnee>>

\* C6: an empty parsed query, an absent procedure or an empty corpus gives
\* needs_review with confidence 0 and no clauses, whatever the other fields.
C6_MissingData ==
    (/\ Returned
     /\ \/ parsed = <<>>
        \/ FalsyStr(Get(parsed, "procedure"))
        \/ Len(all_clauses) = 0)
    => /\ Is("needs_review", Zero)
       /\ result.clauses = <<>>

\* a query without procedure, with a corpus and an encoder at hand
C6_NoProcedure ==
    /\ Returned
    /\ parsed # <<>>
    /\ parsed["procedure"] = <<>>
    /\ parsed["policy_duration_months"] = <<12>>
    /\ Len(all_clauses) > 0
    /\ model = "loaded"
    /\ Is("needs_review", Zero)

\* the waiting periods of the clauses from i on whose text says "waiting
\* period" and holds a word of the procedure longer than two characters
RECURSIVE LexicalPool(_, _)
LexicalPool(procedure, i) ==
    IF i > Len(all_clauses) THEN <<>>
    ELSE (IF /\ HasText(i)
             /\ MentionsWaitingPeriod(Lower(all_clauses[i].text))
             /\ LexicallyMentioned(procedure, Lower(all_clauses[i].text))
          THEN extract_waiting_periods(Lower(all_clauses[i].text))
          ELSE <<>>) \o LexicalPool(procedure, i + 1)

\* the gate rejects on the words of the procedure alone
RejectsLexically ==
    /\ KnownProcedure
    /\ ~FalsyNum(Get(parsed, "policy_duration_months"))
    /\ LET pool == LexicalPool(Lower(parsed["procedure"][1]), 1)
       IN  pool # <<>> /\ parsed["policy_duration_months"][1] < MinOf(pool)

\* C7, as the spec states it: without an encoder make_decision returns
\* needs_review with confidence 0 for every parsed query and every corpus.
C7_NoEncoderNeedsReview == (Returned /\ model = "None") => Is("needs_review", Zero)

\* C7, amended: without an encoder make_decision returns needs_review with
\* confidence 0, unless the gate rejects on the words of the procedure: with
\* procedure known, the policy duration known and not 0, and a non-empty pool
\* of the clauses that say "waiting period" and hold a word of the procedure,
\* whose minimum exceeds the duration, it returns rejected with confidence 0.9.
C7_NoEncoderGateOnly ==
    (Returned /\ model = "None")
    => IF RejectsLexically
       THEN Is("rejected", Rat(9, 10)) /\ calls = <<"check_waiting_period">>
       ELSE Is("needs_review", Zero) /\ result.clauses = <<>>

\* without an encoder, the gate rejects knee surgery after 12 months
C7_RejectedWithoutEncoder ==
    /\ Returned
    /\ model = "None"
    /\ parsed # <<>>
    /\ parsed["policy_duration_months"] = <<12>>
    /\ Is("rejected", Rat(9, 10))
    /\ result.clauses = <<TextWaitKnee>>

\* C8: make_decision never raises: every call ends by returning a record
\* with a decision of approved, rejected or needs_review, a justification, a
\* clauses list and a confidence, also for corpora whose records lack a text
\* or an embedding and for encoders that fail.
C8_NeverRaises ==
    Returned
    => /\ DOMAIN result = {"decision", "justification", "clauses", "confidence"}
       /\ result.decision \in {"approved", "rejected", "needs_review"}

\* the gate of the call rejected
GateRejected ==
    /\ ReturnedRecord
    /\ calls = <<"check_waiting_period">>
    /\ result.decision = "rejected"

\* the clauses whose text contains "waiting period" and a word of the
\* procedure longer than 2 characters, or scores above 0.3 against it
RelevantClauses ==
    {i \in DOMAIN all_clauses :
        ProcedureMentioned(model, Lower(parsed["procedure"][1]), all_clauses[i], i, enc)}

\* those of them whose text states a period
StatingClauses ==
    {i \in RelevantClauses :
        extract_waiting_periods(Lower(all_clauses[i].text)) # <<>>}

\* the texts of the first two clauses of a set, in corpus order
FirstTwoTexts(S) ==
    IF S = {} THEN <<>>
    ELSE IF Cardinality(S) = 1 THEN <<all_clauses[First(S)].text>>
    ELSE <<all_clauses[First(S)].text, all_clauses[First(S \ {First(S)})].text>>

\* C15, as the spec states it: on a waiting-period rejection the clauses list
\* is the texts of the first two relevant clauses in corpus order, a clause
\* being relevant when its text contains "waiting period" and either a
\* procedure word longer than 2 characters or scores above 0.3.
C15_FirstTwoRelevant ==
    GateRejected => result.clauses = FirstTwoTexts(RelevantClauses)

\* C15, amended: the clauses list is the texts of the first two clauses in
\* corpus order that are relevant and from whose text at least one waiting
\* period was extracted.
C15_FirstTwoStating ==
    GateRejected => result.clauses = FirstTwoTexts(StatingClauses)

\* three clauses state a period for the procedure and the first two are cited
C15_ThirdClauseLeftOut ==
    /\ GateRejected
    /\ Cardinality(StatingClauses) = 3
    /\ result.clauses = <<TextWaitSurgery, TextWaitKnee>>

(***************************************************************************)
(* Properties of parse_query                                               *)
(***************************************************************************)
\* C9: for a number N and a unit word both components accept, parse_query
\* gives the months the waiting-period extractor gives: N*12 for years,
\* max(1, round(N/30)) for days, N for months.
C9_SameMonths ==
    \A n \in DurationNumbers, u \in Range(WaitUnits) :
        (/\ pc = "extracted"
         /\ user_query = <<Phrase(n, u)>>
         /\ periods # <<>>)
        => parsed["policy_duration_months"] = <<periods[1]>>

\* C10: the policy_duration_months parse_query returns is None or an integer
\* of at least 1, for every input text.
C10_DurationAtLeastOne ==
    pc \in {"parsed", "extracted"}
    => \/ parsed["policy_duration_months"] = <<>>
       \/ parsed["policy_duration_months"][1] >= 1

\* the parser returned for the text q
ParsedText(q) == pc \in {"parsed", "extracted"} /\ user_query = <<q>>

\* the gazetteer name occurs in the lowered text between word boundaries
OccursAsWord(name, s) ==
    \E i \in 1..Len(s) :
        PrefixAt(s, i, name) /\ AtBoundary(s, i) /\ AtBoundary(s, i + Len(name))

\* the entries of the gazetteer whose name occurs in the text
CitiesIn(s) ==
    {c \in DOMAIN cities_mapping : OccursAsWord(cities_mapping[c][1], s)}

LongestIn(found) ==
    {c \in found :
        \A d \in found : Len(cities_mapping[d][1]) <= Len(cities_mapping[c][1])}

\* C11: the location parse_query returns is the canonical name of the longest
\* gazetteer name that occurs in the lowered text between word boundaries,
\* wherever in the text it stands, and None when no gazetteer name occurs.
C11_LongestCity ==
    \A q \in LocationQueries \cup TestQueries \cup TokenQueries :
        ParsedText(q)
        => LET found == CitiesIn(Strip(LowerOf(q)))
           IN  IF found = {} THEN parsed["location"] = <<>>
               ELSE parsed["location"]
                      \in {<<cities_mapping[c][2]>> : c \in LongestIn(found)}

\* the shorter name stands first in the text and the longer one is returned
C11_LongerNameLater ==
    /\ ParsedText(<<"p","u","n","e"," ","d","e","l","h","i">>)
    /\ parsed["location"] = <<"Delhi">>

\* the mentions one regex shape finds in the lowered text with a number above 0
PositiveMentions(s, p) ==
    {i \in DOMAIN FindIter(WaitPatterns[p], 2, s) :
        ToInt(FindIter(WaitPatterns[p], 2, s)[i].groups[1][1]) > 0}

\* C12: every value extract_waiting_periods returns is an integer of at least
\* 1; the list has one entry for each mention with a number above 0 that each
\* of the three regex shapes finds, duplicates kept; None and the empty text
\* give the empty list.
C12_PeriodsAtLeastOne ==
    pc = "extracted"
    => /\ \A i \in DOMAIN periods : periods[i] \in Nat /\ periods[i] >= 1
       /\ IF user_query = <<>> \/ user_query = <<<<>>>>
          THEN periods = <<>>
          ELSE Len(periods)
                 = Cardinality(PositiveMentions(LowerOf(user_query[1]), 1))
                   + Cardinality(PositiveMentions(LowerOf(user_query[1]), 2))
                   + Cardinality(PositiveMentions(LowerOf(user_query[1]), 3))

\* one mention that all three shapes match gives three entries, and a period
\* of days that rounds to 0 gives 1
C12_DuplicatesKept ==
    \/ /\ pc = "extracted"
       /\ user_query = <<<<"w","a","i","t","i","n","g"," ","p","e","r","i","o","d"," ","o","f"," ","2","4","m","o","n","t","h","s">>>>
       /\ periods = <<24, 24, 24>>
    \/ /\ pc = "extracted"
       /\ user_query = <<<<"1"," ","d","a","y">>>>
       /\ periods = <<1>>

\* the combined patterns that match the lowered text with an age in range
InRangeMatches(s) ==
    {p \in DOMAIN age_gender_patterns :
        /\ Search(age_gender_patterns[p], 2, s) # <<>>
        /\ AgeGenderOf(p, Search(age_gender_patterns[p], 2, s)[1].groups).age # <<>>}

FirstInRange(s) ==
    AgeGenderOf(First(InRangeMatches(s)),
                Search(age_gender_patterns[First(InRangeMatches(s))], 2, s)[1].groups)

\* C16: a combined pattern that captures an age outside [0,120] counts as no
\* match, so the first combined pattern in priority order that captures an
\* age in range sets the age, and the gender when it captured one.
C16_OutOfRangeIsNoMatch ==
    \A q \in CascadeQueries \cup TestQueries \cup TokenQueries :
        (ParsedText(q) /\ InRangeMatches(Strip(LowerOf(q))) # {})
        => /\ parsed["age"] = FirstInRange(Strip(LowerOf(q))).age
           /\ FirstInRange(Strip(LowerOf(q))).gender # <<>>
                => parsed["gender"] = FirstInRange(Strip(LowerOf(q))).gender

\* C19: for a query with a token that the first combined pattern reads as age
\* and gender and with no duration phrase, policy_duration_months is None.
C19_TokenIsNoDuration ==
    \A q \in TokenQueries :
        (/\ ParsedText(q)
         /\ Search(age_gender_patterns[1], 2, Strip(LowerOf(q))) # <<>>)
        => /\ parsed["age"] # <<>>
           /\ parsed["gender"] # <<>>
           /\ parsed["policy_duration_months"] = <<>>

(***************************************************************************)
(* Properties of the constructor and the corpus                            *)
(***************************************************************************)
\* the constructor has ended
Constructed == pc \in {"idle", "returned"}

\* the constructor found records without an embedding and ran its loop
BatchRan == Constructed /\ startup.saved # "no"

\* the records without an embedding in a corpus
Lacking(clauses) == {i \in DOMAIN clauses : "embedding" \notin DOMAIN clauses[i]}

\* the processor before this one found records without embeddings, computed
\* an embedding for each of them and wrote the corpus
EarlierComputedAndSaved ==
    /\ Constructed
    /\ previous # <<>>
    /\ Lacking(previous[1].startup.loaded) # {}
    /\ \A i \in Lacking(previous[1].startup.loaded) :
          i \in previous[1].startup.computed /\ previous[1].startup.encoded[i] # <<>>
    /\ previous[1].startup.saved = "written"

\* C13: after an initialization that found records without embeddings,
\* computed them and wrote the corpus, the next initialization with the same
\* configuration loads the records as the first one left them, finds every
\* embedding present, and neither computes nor writes again.
C13_SecondStartReloads ==
    EarlierComputedAndSaved
    => /\ startup.loaded = previous[1].all_clauses
       /\ has_embeddings(startup.loaded)
       /\ startup.computed = {}
       /\ startup.saved = "no"
       /\ all_clauses = previous[1].all_clauses

\* C14: once the constructor has ended, a make_decision call and the return
\* to the caller leave all_clauses as it is: the same records in the same
\* order with the same texts and embeddings.
C14_CallsKeepCorpus ==
    [][(pc \in {"idle", "returned"} /\ pc' \in {"idle", "returned"})
         => all_clauses' = all_clauses]_vars

\* a call that scored the clauses the constructor computed embeddings for
C14_CalledOnComputed ==
    /\ BatchRan
    /\ ClassifierWorked
    /\ result.clauses # <<>>

\* C17: a record that carried an embedding when the corpus was loaded has
\* exactly that embedding after the constructor, whatever the other records
\* lacked and whatever the encoder did.
C17_KeepsLoadedEmbeddings ==
    Constructed
    => \A i \in DOMAIN startup.loaded :
          "embedding" \in DOMAIN startup.loaded[i]
          => /\ i \in DOMAIN all_clauses
             /\ "embedding" \in DOMAIN all_clauses[i]
             /\ all_clauses[i].embedding = startup.loaded[i].embedding

\* the records of the corpus the classifier scored against the vector v
CitedFrom(v) == {all_clauses[i].text : i \in {j \in Scorable(v) : HasText(j)}}

\* C18: when the loop of the constructor ran, every record with a text has
\* the embedding encode returned for it, or the empty embedding when encode
\* raised for it, whatever encode did for the other records; and a clause
\* the classifier cites afterwards has a non-empty embedding.
C18_FailureStaysWithRecord ==
    BatchRan
    => /\ \A i \in WithText(startup.loaded) :
             /\ i \in startup.computed
             /\ all_clauses[i].text = startup.loaded[i].text
             /\ "embedding" \in DOMAIN all_clauses[i]
             /\ all_clauses[i].embedding
                  = IF startup.encoded[i] = <<>> THEN <<>> ELSE startup.encoded[i][1]
       /\ (ClassifierWorked /\ ReturnedRecord /\ result.clauses # <<>>)
             => result.clauses[1] \in CitedFrom(enc.proc[1])

\* encode raised for the first record and returned for the second, and the
\* classifier cited the second
C18_OneFailedOneCited ==
    /\ BatchRan
    /\ Len(all_clauses) = 2
    /\ startup.encoded[1] = <<>>
    /\ startup.encoded[2] # <<>>
    /\ all_clauses[1].embedding = <<>>
    /\ ClassifierWorked
    /\ result.clauses = <<all_clauses[2].text>>

====
